---- MODULE Spec2Model ----
(***************************************************************************)
(* gpflow/conditionals/conditionals.py: the two registered implementations *)
(* of `conditional` (inducing-feature source and raw-data source), the     *)
(* dispatcher that routes a call to one of them, and the collaborators     *)
(* they call (Kuu, Kuf, kernel, jitter_eye, base_conditional,              *)
(* expand_independent_outputs).                                            *)
(*                                                                         *)
(* A call is a record with a program counter; every statement of the two   *)
(* implementations is one step of the call.  Several calls may be in       *)
(* flight and their steps interleave.                                      *)
(*                                                                         *)
(* Tensors are records [shape, v] with v a nested sequence.  Real numbers  *)
(* are fixed-point integers: the integer a stands for a / Scale.           *)
(***************************************************************************)
EXTENDS Integers, Sequences, FiniteSets, TLC

VARIABLES
    calls,   \* the calls in flight: a sequence of call records
    alone    \* history: for each call, the outcome of the same call run on its own

vars == <<calls, alone>>

----------------------------------------------------------------------------
(* Bounds of the model *)

\* largest number M of reference / inducing points, and of rows of f, q_sqrt
MaxM == 2
\* largest number N of prediction points
MaxN == 2
\* largest number R of outputs (columns of f)
MaxR == 2
\* fixed-point resolution: 1.0 is represented by Scale
Scale == 64

----------------------------------------------------------------------------
(* Fixed-point arithmetic *)

Mul(a, b) == (a * b) \div Scale

Div(a, b) == (a * Scale) \div b

ISqrt(n) == CHOOSE s \in 0..n : s * s <= n /\ (s + 1) * (s + 1) > n

Sqrt(a) == ISqrt(a * Scale)

RECURSIVE SeqSum(_)
SeqSum(s) == IF Len(s) = 0 THEN 0 ELSE s[1] + SeqSum(Tail(s))

\* sum over m of a[m] * b[m]
Dot(a, b) == SeqSum([k \in 1..Len(a) |-> Mul(a[k], b[k])])

----------------------------------------------------------------------------
(* Tensors *)

None == [shape |-> <<>>, v |-> <<>>]

IsNone(t) == t.shape = <<>>

Vec(n, F(_)) == [shape |-> <<n>>, v |-> [i \in 1..n |-> F(i)]]

Mat(m, n, F(_, _)) ==
    [shape |-> <<m, n>>, v |-> [i \in 1..m |-> [j \in 1..n |-> F(i, j)]]]

Ten3(a, b, c, F(_, _, _)) ==
    [shape |-> <<a, b, c>>,
     v |-> [i \in 1..a |-> [j \in 1..b |-> [k \in 1..c |-> F(i, j, k)]]]]

Ten4(a, b, c, d, F(_, _, _, _)) ==
    [shape |-> <<a, b, c, d>>,
     v |-> [i \in 1..a |-> [j \in 1..b |-> [k \in 1..c |->
              [l \in 1..d |-> F(i, j, k, l)]]]]]

\* equality of tensors: the shapes first, the entries only when they agree
SameTensor(s, t) == s.shape = t.shape /\ s.v = t.v

MatAdd(s, t) == Mat(s.shape[1], s.shape[2], LAMBDA i, j : s.v[i][j] + t.v[i][j])

----------------------------------------------------------------------------
(* Collaborators: kernel, Kuu, Kuf, jitter_eye *)

Abs(x) == IF x < 0 THEN -x ELSE x

\* A stationary single-output kernel of unit variance on D = 1 inputs:
\* k(x, y) is 1.0 at distance 0, 0.5 at distance 1 and 0 beyond.
KernelK(x, y) ==
    LET d == Abs(x[1] - y[1])
    IN  IF d = 0 THEN Scale ELSE IF d = 1 THEN Scale \div 2 ELSE 0

\* kernel(X): the full self-covariance, [len(X), len(X)]
KernelFull(X) ==
    Mat(X.shape[1], X.shape[1], LAMBDA i, j : KernelK(X.v[i], X.v[j]))

\* kernel(X, diag=True): the diagonal of the self-covariance, [len(X)]
KernelDiag(X) == Vec(X.shape[1], LAMBDA i : KernelK(X.v[i], X.v[i]))

\* kernel(X, X2): the cross-covariance, [len(X), len(X2)]
KernelCross(X, X2) ==
    Mat(X.shape[1], X2.shape[1], LAMBDA i, j : KernelK(X.v[i], X2.v[j]))

\* kernel(X, diag=d)
KernelSelf(X, diag) == IF diag THEN KernelDiag(X) ELSE KernelFull(X)

\* the jitter level: the smallest positive number of the arithmetic
Jitter == 1

\* jitter_eye(M): jitter times the M x M identity
jitter_eye(M) == Mat(M, M, LAMBDA i, j : IF i = j THEN Jitter ELSE 0)

\* Kuu(feature, kernel): covariance of the inducing points, [M, M]
Kuu(feature) == KernelFull(feature.val)

\* Kuf(feature, kernel, Xnew): inducing points against Xnew, [M, N]
Kuf(feature, Xnew) == KernelCross(feature.val, Xnew)

----------------------------------------------------------------------------
(* Base Conditional Primitive: base_conditional(Kmn, Kmm, Knn, f,          *)
(* full_cov=, q_sqrt=, white=)                                             *)

\* The precondition on the shapes: M agrees between Kmm (both dimensions),
\* Kmn, f and q_sqrt; N between Kmn and Knn; R between f and q_sqrt; Knn is
\* [N, N] with full_cov and [N] without; q_sqrt is None, [M, R] or [R, M, M].
BaseShapesOk(a) ==
    /\ Len(a.Kmm.shape) = 2 /\ Len(a.Kmn.shape) = 2 /\ Len(a.f.shape) = 2
    /\ LET M == a.Kmm.shape[1]
           N == a.Kmn.shape[2]
           R == a.f.shape[2]
       IN  /\ a.Kmm.shape = <<M, M>>
           /\ a.Kmn.shape = <<M, N>>
           /\ a.f.shape = <<M, R>>
           /\ a.Knn.shape = (IF a.full_cov THEN <<N, N>> ELSE <<N>>)
           /\ \/ IsNone(a.q_sqrt)
              \/ a.q_sqrt.shape = <<M, R>>
              \/ a.q_sqrt.shape = <<R, M, M>>

\* Row i of the Cholesky factor, given the rows before it (Lp) and the
\* entries of the row found so far; <<>> when the pivot is not positive.
RECURSIVE CholRow(_, _, _, _)
CholRow(K, Lp, i, row) ==
    LET j == Len(row) + 1
    IN  IF j = i
        THEN LET piv == K[i][i] - Dot(row, row)
             IN  IF piv <= 0 THEN <<>>
                 ELSE [k \in 1..Len(K) |->
                          IF k < i THEN row[k] ELSE IF k = i THEN Sqrt(piv) ELSE 0]
        ELSE CholRow(K, Lp, i,
                     Append(row, Div(K[i][j] - Dot(row, SubSeq(Lp[j], 1, j - 1)),
                                     Lp[j][j])))

RECURSIVE CholRows(_, _)
CholRows(K, Lp) ==
    IF Len(Lp) = Len(K) THEN Lp
    ELSE LET row == CholRow(K, Lp, Len(Lp) + 1, <<>>)
         IN  IF row = <<>> THEN <<>> ELSE CholRows(K, Append(Lp, row))

\* Kmm = L L^T, L lower triangular; ok is FALSE when Kmm is not
\* positive-definite.
Cholesky(Kmm) ==
    LET rows == CholRows(Kmm.v, <<>>)
    IN  [ok |-> rows # <<>>, L |-> rows]

\* forward substitution: the A with L A = B, row by row
RECURSIVE SolveLower(_, _, _)
SolveLower(L, B, A) ==
    LET i == Len(A) + 1
    IN  IF i > Len(L) THEN A
        ELSE SolveLower(L, B, Append(A,
               [n \in 1..Len(B[1]) |->
                  Div(B[i][n] - SeqSum([k \in 1..(i - 1) |-> Mul(L[i][k], A[k][n])]),
                      L[i][i])]))

\* backward substitution: the C with L^T C = F, from the last row up
RECURSIVE SolveUpperT(_, _, _)
SolveUpperT(L, F, C) ==
    LET M == Len(L)
        i == M - Len(C)
    IN  IF i = 0 THEN C
        ELSE SolveUpperT(L, F,
               <<[r \in 1..Len(F[1]) |->
                    Div(F[i][r] - SeqSum([k \in 1..(M - i) |->
                                             Mul(L[i + k][i], C[k][r])]),
                        L[i][i])]>> \o C)

\* Steps 2 to 6 of the primitive, given the Cholesky factor L of Kmm:
\* A = L^-1 Kmn; the base covariance Knn - A^T A; without whitening a second
\* triangular solve takes A to L^-T A = Kmm^-1 Kmn; mean = A^T f; q_sqrt adds
\* (Lq_r^T A)^T (Lq_r^T A) to the covariance of output r.
BaseCompute(a, L) ==
    LET M == a.Kmm.shape[1]
        N == a.Kmn.shape[2]
        R == a.f.shape[2]
        A0 == SolveLower(L, a.Kmn.v, <<>>)
        col0(n) == [m \in 1..M |-> A0[m][n]]
        A == IF a.white THEN A0 ELSE SolveUpperT(L, A0, <<>>)
        q == a.q_sqrt
        \* LTA[r][m][n]: q_sqrt applied to A, per output
        LTA(r, m, n) ==
            IF Len(q.shape) = 2
            THEN Mul(A[m][n], q.v[m][r])
            ELSE SeqSum([k \in 1..M |-> Mul(q.v[r][k][m], A[k][n])])
        extra(r, n, n2) ==
            IF IsNone(q) THEN 0
            ELSE SeqSum([m \in 1..M |-> Mul(LTA(r, m, n), LTA(r, m, n2))])
        mean == Mat(N, R, LAMBDA n, r :
                    SeqSum([m \in 1..M |-> Mul(A[m][n], a.f.v[m][r])]))
        var == IF a.full_cov
               THEN Ten3(R, N, N, LAMBDA r, n, n2 :
                        a.Knn.v[n][n2] - Dot(col0(n), col0(n2)) + extra(r, n, n2))
               ELSE Mat(N, R, LAMBDA n, r :
                        a.Knn.v[n] - Dot(col0(n), col0(n)) + extra(r, n, n))
    IN  [mean |-> mean, var |-> var]

----------------------------------------------------------------------------
(* Output-Covariance Expansion: expand_independent_outputs(fvar, full_cov, *)
(* full_output_cov)                                                        *)

expand_independent_outputs(fvar, full_cov, full_output_cov) ==
    IF full_cov /\ full_output_cov
    THEN LET R == fvar.shape[1]
             N == fvar.shape[2]
         IN  Ten4(N, R, N, R, LAMBDA n, r, n2, r2 :
                    IF r = r2 THEN fvar.v[r][n][n2] ELSE 0)
    ELSE IF full_output_cov
    THEN LET N == fvar.shape[1]
             R == fvar.shape[2]
         IN  Ten3(N, R, R, LAMBDA n, r, r2 : IF r = r2 THEN fvar.v[n][r] ELSE 0)
    ELSE fvar

----------------------------------------------------------------------------
(* The dispatcher `conditional` and the two registrations *)

\* the class each class derives from
Parent(cls) ==
    CASE cls = "InducingPoints" -> "InducingFeature"
      [] cls = "SquaredExponential" -> "Kernel"
      [] OTHER -> "object"

RECURSIVE IsSubclass(_, _)
IsSubclass(cls, t) ==
    \/ cls = t
    \/ cls # "object" /\ IsSubclass(Parent(cls), t)

\* a registration of the first implementation that does not name
\* InducingFeature
RegFeatures_AnySource ==
    [sig |-> <<"object", "object", "Kernel", "object">>, impl |-> "features"]

\* @conditional.register(object, InducingFeature, Kernel, object)
RegFeatures ==
    [sig |-> <<"object", "InducingFeature", "Kernel", "object">>, impl |-> "features"]

\* a registration of the second implementation that does not name Kernel
RegData_AnyKernel ==
    [sig |-> <<"object", "object", "object", "object">>, impl |-> "data"]

\* @conditional.register(object, object, Kernel, object)
RegData ==
    [sig |-> <<"object", "object", "Kernel", "object">>, impl |-> "data"]

\* the registrations, in the order the module makes them
Registrations == <<RegFeatures, RegData>>

\* the dispatcher's table: a later registration of a signature replaces an
\* earlier one
Funcs ==
    {Registrations[i] : i \in {i \in DOMAIN Registrations :
        \A j \in DOMAIN Registrations : j > i => Registrations[j].sig # Registrations[i].sig}}

\* a signature accepts the classes of the positional arguments
Matches(sig, types) ==
    /\ Len(sig) = Len(types)
    /\ \A i \in DOMAIN sig : IsSubclass(types[i], sig[i])

\* the implementation a call is routed to: the most specific of the
\* registered signatures that accept the arguments; "none" without one
Resolve(types) ==
    LET cands == {r \in Funcs : Matches(r.sig, types)}
    IN  IF cands = {} THEN "none"
        ELSE (CHOOSE r \in cands : \A o \in cands : Matches(o.sig, r.sig)).impl

\* keyword-only parameters of the InducingFeature implementation, with defaults
FeaturesDefaults ==
    [full_cov |-> FALSE, full_output_cov |-> FALSE, q_sqrt |-> None, white |-> FALSE]

\* a data implementation that takes full_output_cov too
DataDefaults_FullOutputCov ==
    [full_cov |-> FALSE, full_output_cov |-> FALSE, q_sqrt |-> None, white |-> FALSE]

\* keyword-only parameters of the data implementation, with defaults
DataDefaults ==
    [full_cov |-> FALSE, q_sqrt |-> None, white |-> FALSE]

Defaults(impl) == IF impl = "features" THEN FeaturesDefaults ELSE DataDefaults

----------------------------------------------------------------------------
(* A call of conditional(Xnew, source, kernel, function, **kw) *)

NoArgs ==
    [Kmn |-> None, Kmm |-> None, Knn |-> None, f |-> None,
     full_cov |-> FALSE, q_sqrt |-> None, white |-> FALSE]

NoPair == [mean |-> None, var |-> None]

NewCall(args) ==
    [args |-> args, pc |-> "called", impl |-> "none", par |-> <<>>,
     num_data |-> 0, Kmm |-> None, Kmn |-> None, Knn |-> None,
     bargs |-> NoArgs, bL |-> <<>>, bout |-> NoPair, berr |-> "",
     err |-> "", result |-> NoPair, trace |-> <<>>]

\* how often, and whether, an event is in a call's trace
Count(trace, e) == Cardinality({k \in DOMAIN trace : trace[k] = e})

Has(trace, e) == \E k \in DOMAIN trace : trace[k] = e

Raise(c, e) ==
    [c EXCEPT !.pc = "raised", !.err = e, !.trace = Append(@, "raise")]

\* conditional(...): look the implementation up by the classes of the four
\* positional arguments and call it with the keyword arguments
Dispatch(c) ==
    LET a == c.args
        impl == Resolve(<<a.Xnew.cls, a.source.cls, a.kernel.cls, a.function.cls>>)
        d == [c EXCEPT !.trace = Append(@, "dispatch")]
    IN  IF impl = "none" THEN Raise(d, "UnsupportedCombinationError")
        ELSE IF ~(DOMAIN a.kw \subseteq DOMAIN Defaults(impl))
        THEN Raise([d EXCEPT !.impl = impl], "TypeError")
        ELSE [d EXCEPT !.impl = impl,
                       !.par = a.kw @@ Defaults(impl),
                       !.trace = Append(@, impl),
                       !.pc = IF impl = "features" THEN "f52" ELSE "d101"]

----------------------------------------------------------------------------
(* Conditional-from-Features *)

\* Kmm = Kuu(feature, kernel)
FeaturesKmm(c) ==
    [c EXCEPT !.Kmm = Kuu(c.args.source), !.trace = Append(@, "Kuu"), !.pc = "f53"]

\* Kmn = Kuf(feature, kernel, Xnew)
FeaturesKmn(c) ==
    [c EXCEPT !.Kmn = Kuf(c.args.source, c.args.Xnew.val),
              !.trace = Append(@, "Kuf"), !.pc = "f54"]

\* Knn = kernel(Xnew, diag=(not full_cov))
FeaturesKnn(c) ==
    [c EXCEPT !.Knn = KernelSelf(c.args.Xnew.val, ~c.par.full_cov),
              !.trace = Append(@, "kernel"), !.pc = "f55"]

\* a call of the primitive that passes full_cov where white belongs
FeaturesBaseArgs_WhiteFromFullCov(c) ==
    [Kmn |-> c.Kmn, Kmm |-> c.Kmm, Knn |-> c.Knn, f |-> c.args.function.val,
     full_cov |-> c.par.full_cov, q_sqrt |-> c.par.q_sqrt, white |-> c.par.full_cov]

\* the arguments of base_conditional(Kmn, Kmm, Knn, function, full_cov=full_cov,
\* q_sqrt=q_sqrt, white=white)
FeaturesBaseArgs(c) ==
    [Kmn |-> c.Kmn, Kmm |-> c.Kmm, Knn |-> c.Knn, f |-> c.args.function.val,
     full_cov |-> c.par.full_cov, q_sqrt |-> c.par.q_sqrt, white |-> c.par.white]

InvokeBase(c, bargs) ==
    [c EXCEPT !.bargs = bargs, !.trace = Append(@, "base_conditional"),
              !.pc = "base_check"]

FeaturesBase(c) == InvokeBase(c, FeaturesBaseArgs(c))

\* a return that answers a first failure of the primitive by calling it again
FeaturesReturn_Retry(c) ==
    IF c.berr # "" /\ Count(c.trace, "base_conditional") < 2
    THEN InvokeBase([c EXCEPT !.berr = ""], c.bargs)
    ELSE IF c.berr # "" THEN Raise(c, c.berr)
    ELSE [c EXCEPT
            !.result = [mean |-> c.bout.mean,
                        var |-> expand_independent_outputs(
                                   c.bout.var, c.par.full_cov, c.par.full_output_cov)],
            !.trace = @ \o <<"expand_independent_outputs", "return">>,
            !.pc = "returned"]

\* a return of the primitive's variance as it is, without the expansion
FeaturesReturn_NoExpansion(c) ==
    IF c.berr # "" THEN Raise(c, c.berr)
    ELSE [c EXCEPT !.result = [mean |-> c.bout.mean, var |-> c.bout.var],
                   !.trace = Append(@, "return"), !.pc = "returned"]

\* fmean, fvar = <the primitive's result>;
\* return fmean, expand_independent_outputs(fvar, full_cov, full_output_cov)
FeaturesReturn(c) ==
    IF c.berr # "" THEN Raise(c, c.berr)
    ELSE [c EXCEPT
            !.result = [mean |-> c.bout.mean,
                        var |-> expand_independent_outputs(
                                   c.bout.var, c.par.full_cov, c.par.full_output_cov)],
            !.trace = @ \o <<"expand_independent_outputs", "return">>,
            !.pc = "returned"]

----------------------------------------------------------------------------
(* Conditional-from-Data *)

\* num_data = X.shape[0]
DataNumData(c) ==
    [c EXCEPT !.num_data = c.args.source.val.shape[1], !.pc = "d102"]

\* a Kmm that is taken from whichever call has computed one already
DataKmm_Shared(c) ==
    LET have == {j \in DOMAIN calls : ~IsNone(calls[j].Kmm)}
        own == MatAdd(KernelFull(c.args.source.val), jitter_eye(c.num_data))
    IN  [c EXCEPT !.Kmm = IF have = {} THEN own ELSE calls[CHOOSE j \in have : TRUE].Kmm,
                  !.trace = @ \o <<"kernel", "jitter_eye">>, !.pc = "d103"]

\* Kmm = kernel(X) + jitter_eye(num_data)
DataKmm(c) ==
    [c EXCEPT !.Kmm = MatAdd(KernelFull(c.args.source.val), jitter_eye(c.num_data)),
              !.trace = @ \o <<"kernel", "jitter_eye">>, !.pc = "d103"]

\* Kmn = kernel(X, Xnew)
DataKmn(c) ==
    [c EXCEPT !.Kmn = KernelCross(c.args.source.val, c.args.Xnew.val),
              !.trace = Append(@, "kernel"), !.pc = "d104"]

\* Knn = kernel(Xnew, diag=(not full_cov))
DataKnn(c) ==
    [c EXCEPT !.Knn = KernelSelf(c.args.Xnew.val, ~c.par.full_cov),
              !.trace = Append(@, "kernel"), !.pc = "d105"]

\* a call of the primitive that passes Kmn where the function values belong
DataBaseArgs_KmnAsFunction(c) ==
    [Kmn |-> c.Kmn, Kmm |-> c.Kmm, Knn |-> c.Knn, f |-> c.Kmn,
     full_cov |-> c.par.full_cov, q_sqrt |-> c.par.q_sqrt, white |-> c.par.white]

\* the arguments of base_conditional(Kmn, Kmm, Knn, function, full_cov=full_cov,
\* q_sqrt=q_sqrt, white=white)
DataBaseArgs(c) ==
    [Kmn |-> c.Kmn, Kmm |-> c.Kmm, Knn |-> c.Knn, f |-> c.args.function.val,
     full_cov |-> c.par.full_cov, q_sqrt |-> c.par.q_sqrt, white |-> c.par.white]

DataBase(c) == InvokeBase(c, DataBaseArgs(c))

\* a return that runs the expansion on the Data path as well
DataReturn_Expanded(c) ==
    IF c.berr # "" THEN Raise(c, c.berr)
    ELSE [c EXCEPT
            !.result = [mean |-> c.bout.mean,
                        var |-> expand_independent_outputs(c.bout.var, c.par.full_cov, FALSE)],
            !.trace = @ \o <<"expand_independent_outputs", "return">>,
            !.pc = "returned"]

\* mean, var = <the primitive's result>; return mean, var
DataReturn(c) ==
    IF c.berr # "" THEN Raise(c, c.berr)
    ELSE [c EXCEPT !.result = [mean |-> c.bout.mean, var |-> c.bout.var],
                   !.trace = Append(@, "return"), !.pc = "returned"]

----------------------------------------------------------------------------
(* The steps of base_conditional inside a call *)

\* where the primitive returns, or raises, to
BaseExit(c) == IF c.impl = "features" THEN "f56" ELSE "d107"

\* the shapes are checked before any factorization
BaseCheck(c) ==
    IF BaseShapesOk(c.bargs) THEN [c EXCEPT !.pc = "base_chol"]
    ELSE [c EXCEPT !.berr = "ShapeError", !.pc = BaseExit(c)]

\* Kmm = L L^T
BaseCholesky(c) ==
    LET ch == Cholesky(c.bargs.Kmm)
        d == [c EXCEPT !.trace = Append(@, "cholesky")]
    IN  IF ch.ok THEN [d EXCEPT !.bL = ch.L, !.pc = "base_rest"]
        ELSE [d EXCEPT !.berr = "NumericalError", !.pc = BaseExit(c)]

\* the solves, the mean and the variance
BaseRest(c) ==
    [c EXCEPT !.bout = BaseCompute(c.bargs, c.bL), !.pc = BaseExit(c)]

----------------------------------------------------------------------------
(* A whole call, run on its own *)

Terminal(c) == c.pc \in {"returned", "raised"}

StepOf(c) ==
    CASE c.pc = "called" -> Dispatch(c)
      [] c.pc = "f52" -> FeaturesKmm(c)
      [] c.pc = "f53" -> FeaturesKmn(c)
      [] c.pc = "f54" -> FeaturesKnn(c)
      [] c.pc = "f55" -> FeaturesBase(c)
      [] c.pc = "f56" -> FeaturesReturn(c)
      [] c.pc = "d101" -> DataNumData(c)
      [] c.pc = "d102" -> DataKmm(c)
      [] c.pc = "d103" -> DataKmn(c)
      [] c.pc = "d104" -> DataKnn(c)
      [] c.pc = "d105" -> DataBase(c)
      [] c.pc = "d107" -> DataReturn(c)
      [] c.pc = "base_check" -> BaseCheck(c)
      [] c.pc = "base_chol" -> BaseCholesky(c)
      [] c.pc = "base_rest" -> BaseRest(c)
      [] OTHER -> c

\* the steps of a call to its end (the next record is bound as a value
\* before the recursion goes on)
RECURSIVE Run(_)
Run(c) ==
    IF Terminal(c) THEN c
    ELSE CHOOSE r \in {Run(n) : n \in {StepOf(c)}} : TRUE

\* conditional(Xnew, source, kernel, function, **kw) from call to outcome
Conditional(args) == Run(NewCall(args))

----------------------------------------------------------------------------
(* The calls the model makes *)

\* n points in one dimension: 0, 1, ..., n - 1, or n copies of 0
Points(n, dup) == Mat(n, 1, LAMBDA i, j : IF dup THEN 0 ELSE i - 1)

Tensor(t) == [cls |-> "Tensor", val |-> t]

\* an InducingPoints feature; val holds its inducing locations Z
InducingPoints(Z) == [cls |-> "InducingPoints", val |-> Z]

SquaredExponential == [cls |-> "SquaredExponential"]

LocationSets == {Points(m, dup) : m \in 1..MaxM, dup \in BOOLEAN}

Sources ==
    {InducingPoints(Z) : Z \in LocationSets} \cup {Tensor(X) : X \in LocationSets}

Kernels == {SquaredExponential, Tensor(None)}

Xnews == {Tensor(Points(n, FALSE)) : n \in 1..MaxN}

Functions ==
    {Tensor(Mat(m, r, LAMBDA i, j : Scale * i + j)) : m \in 1..MaxM, r \in 1..MaxR}

QSqrts ==
    {Mat(m, r, LAMBDA i, j : Scale \div 2) : m \in 1..MaxM, r \in 1..MaxR}
    \cup {Ten3(r, m, m, LAMBDA k, i, j :
                IF j > i THEN 0 ELSE IF i = j THEN Scale ELSE Scale \div 2)
            : m \in 1..MaxM, r \in 1..MaxR}

Opt(name, supplied, value) == IF supplied THEN name :> value ELSE <<>>

\* the keyword arguments a caller may supply
Keywords ==
    {Opt("full_cov", fc, TRUE) @@ Opt("white", w, TRUE) @@ Opt("q_sqrt", q # None, q)
       @@ Opt("full_output_cov", foc # "absent", foc = "true")
     : fc \in BOOLEAN, w \in BOOLEAN, q \in QSqrts \cup {None},
       foc \in {"absent", "false", "true"}}

Inputs ==
    [Xnew : Xnews, source : Sources, kernel : Kernels, function : Functions,
     kw : Keywords]

----------------------------------------------------------------------------
(* The state machine *)

\* what the caller sees of a finished call
Outcome(c) == [pc |-> c.pc, err |-> c.err, result |-> c.result]

Start(argseq) ==
    /\ calls = [i \in DOMAIN argseq |-> NewCall(argseq[i])]
    /\ alone = [i \in DOMAIN argseq |-> Outcome(Conditional(argseq[i]))]

\* one call, with any of the inputs
Init == \E a \in Inputs : Start(<<a>>)

At(i, pc) == i \in DOMAIN calls /\ calls[i].pc = pc

Do(i, new) == calls' = [calls EXCEPT ![i] = new] /\ UNCHANGED alone

ActDispatch == \E i \in DOMAIN calls : At(i, "called") /\ Do(i, Dispatch(calls[i]))

ActFeaturesKmm == \E i \in DOMAIN calls : At(i, "f52") /\ Do(i, FeaturesKmm(calls[i]))

ActFeaturesKmn == \E i \in DOMAIN calls : At(i, "f53") /\ Do(i, FeaturesKmn(calls[i]))

ActFeaturesKnn == \E i \in DOMAIN calls : At(i, "f54") /\ Do(i, FeaturesKnn(calls[i]))

ActFeaturesBase == \E i \in DOMAIN calls : At(i, "f55") /\ Do(i, FeaturesBase(calls[i]))

ActFeaturesReturn == \E i \in DOMAIN calls : At(i, "f56") /\ Do(i, FeaturesReturn(calls[i]))

ActDataNumData == \E i \in DOMAIN calls : At(i, "d101") /\ Do(i, DataNumData(calls[i]))

ActDataKmm == \E i \in DOMAIN calls : At(i, "d102") /\ Do(i, DataKmm(calls[i]))

ActDataKmn == \E i \in DOMAIN calls : At(i, "d103") /\ Do(i, DataKmn(calls[i]))

ActDataKnn == \E i \in DOMAIN calls : At(i, "d104") /\ Do(i, DataKnn(calls[i]))

ActDataBase == \E i \in DOMAIN calls : At(i, "d105") /\ Do(i, DataBase(calls[i]))

ActDataReturn == \E i \in DOMAIN calls : At(i, "d107") /\ Do(i, DataReturn(calls[i]))

ActBaseCheck == \E i \in DOMAIN calls : At(i, "base_check") /\ Do(i, BaseCheck(calls[i]))

ActBaseCholesky == \E i \in DOMAIN calls : At(i, "base_chol") /\ Do(i, BaseCholesky(calls[i]))

ActBaseRest == \E i \in DOMAIN calls : At(i, "base_rest") /\ Do(i, BaseRest(calls[i]))

Next ==
    \/ ActDispatch
    \/ ActFeaturesKmm \/ ActFeaturesKmn \/ ActFeaturesKnn
    \/ ActFeaturesBase \/ ActFeaturesReturn
    \/ ActDataNumData \/ ActDataKmm \/ ActDataKmn \/ ActDataKnn
    \/ ActDataBase \/ ActDataReturn
    \/ ActBaseCheck \/ ActBaseCholesky \/ ActBaseRest

Spec == Init /\ [][Next]_vars

\* two calls in flight at once, their steps interleaved
ConcInputs ==
    {a \in Inputs : /\ a.kernel = SquaredExponential
                    /\ DOMAIN a.kw = {}
                    /\ a.Xnew.val.shape[1] = 1
                    /\ a.function.val.shape[2] = 1}

InitConc == \E a \in ConcInputs : \E b \in ConcInputs : Start(<<a, b>>)

SpecConc == InitConc /\ [][Next]_vars

----------------------------------------------------------------------------
(* Properties *)

Calls == {calls[i] : i \in DOMAIN calls}

IsKernel(c) == IsSubclass(c.args.kernel.cls, "Kernel")

IsFeature(c) == IsSubclass(c.args.source.cls, "InducingFeature")

Supplied(c, name) == name \in DOMAIN c.args.kw

\* the keyword argument the caller supplied, or the default
KwOr(c, name, default) == IF Supplied(c, name) THEN c.args.kw[name] ELSE default

\* the events only the Features path produces, and only the Data path
FeaturesEvents == {"features", "Kuu", "Kuf", "expand_independent_outputs"}

DataEvents == {"data", "jitter_eye"}

\* C1: a call whose third argument is a Kernel is routed by the class of its
\* second argument alone: an InducingFeature source to the Features
\* implementation, any other source to the Data implementation; one
\* implementation is entered at most once and no step of the other one runs.
C1_RoutedBySource ==
    \A c \in Calls :
        (c.pc # "called" /\ IsKernel(c)) =>
            /\ c.impl = (IF IsFeature(c) THEN "features" ELSE "data")
            /\ Count(c.trace, "dispatch") = 1
            /\ Count(c.trace, "features") + Count(c.trace, "data")
                 = (IF c.err = "TypeError" THEN 0 ELSE 1)
            /\ \A k \in DOMAIN c.trace :
                   c.trace[k] \notin (IF IsFeature(c) THEN DataEvents ELSE FeaturesEvents)

\* C1 witness: an InducingFeature source with a Kernel has returned from the
\* Features implementation.
C1_Witness ==
    \E c \in Calls :
        IsKernel(c) /\ IsFeature(c) /\ c.pc = "returned" /\ c.impl = "features"

\* C6: a call whose third argument is not a Kernel ends with
\* UnsupportedCombinationError, and no implementation, covariance evaluation
\* or primitive runs for it.
C6_NoMatchIsUnsupported ==
    \A c \in Calls :
        (c.pc # "called" /\ ~IsKernel(c)) =>
            /\ c.pc = "raised"
            /\ c.err = "UnsupportedCombinationError"
            /\ c.impl = "none"
            /\ c.trace = <<"dispatch", "raise">>
            /\ IsNone(c.Kmm) /\ IsNone(c.Kmn) /\ IsNone(c.Knn)
            /\ c.result = NoPair

\* C6 witness: a call with a non-Kernel third argument has been dispatched.
C6_Witness ==
    \E c \in Calls :
        ~IsKernel(c) /\ c.pc = "raised" /\ c.err = "UnsupportedCombinationError"

WithoutKw(args, name) ==
    [args EXCEPT !.kw = [k \in DOMAIN args.kw \ {name} |-> args.kw[k]]]

\* C10: a call routed to the Data implementation that supplies
\* full_output_cov (true or false) fails with a TypeError before any kernel
\* evaluation or primitive invocation, while the same call without
\* full_output_cov is bound and reaches the primitive; a call routed to the
\* Features implementation is never refused for a keyword.
C10_DataRefusesFullOutputCov ==
    \A c \in Calls :
        (c.pc # "called" /\ IsKernel(c)) =>
            /\ (~IsFeature(c) /\ Supplied(c, "full_output_cov")) =>
                  /\ c.pc = "raised" /\ c.err = "TypeError"
                  /\ c.trace = <<"dispatch", "raise">>
                  /\ IsNone(c.Kmm) /\ IsNone(c.Kmn) /\ IsNone(c.Knn)
                  /\ LET d == Conditional(WithoutKw(c.args, "full_output_cov"))
                     IN  d.err # "TypeError" /\ Has(d.trace, "base_conditional")
            /\ (~IsFeature(c) /\ ~Supplied(c, "full_output_cov")) => c.err # "TypeError"
            /\ IsFeature(c) => c.err # "TypeError"

\* C10 witness: a Data call that supplied full_output_cov=False was refused.
C10_Witness ==
    \E c \in Calls :
        /\ IsKernel(c) /\ ~IsFeature(c) /\ Supplied(c, "full_output_cov")
        /\ c.args.kw["full_output_cov"] = FALSE
        /\ c.pc = "raised" /\ c.err = "TypeError"

\* the nesting of a tensor's entries is the one its shape states
WellShaped(t) ==
    LET sh == t.shape
    IN  /\ Len(t.v) = sh[1]
        /\ Len(sh) >= 2 => \A i \in 1..sh[1] :
             /\ Len(t.v[i]) = sh[2]
             /\ Len(sh) >= 3 => \A j \in 1..sh[2] :
                  /\ Len(t.v[i][j]) = sh[3]
                  /\ Len(sh) >= 4 => \A k \in 1..sh[3] : Len(t.v[i][j][k]) = sh[4]

\* C2: a call that returns from the Features implementation returns a mean of
\* shape [N, R] and a variance of shape [N, R], [R, N, N], [N, R, R] or
\* [N, R, N, R] as (full_cov, full_output_cov) is (F, F), (T, F), (F, T) or
\* (T, T); with full_output_cov every entry between two different outputs is 0.
C2_FeaturesShapes ==
    \A c \in Calls :
        (c.pc = "returned" /\ c.impl = "features") =>
            LET N == c.args.Xnew.val.shape[1]
                R == c.args.function.val.shape[2]
                fc == KwOr(c, "full_cov", FALSE)
                foc == KwOr(c, "full_output_cov", FALSE)
                var == c.result.var
            IN  /\ c.result.mean.shape = <<N, R>> /\ WellShaped(c.result.mean)
                /\ var.shape = (IF fc /\ foc THEN <<N, R, N, R>>
                                ELSE IF fc THEN <<R, N, N>>
                                ELSE IF foc THEN <<N, R, R>>
                                ELSE <<N, R>>)
                /\ WellShaped(var)
                /\ (foc /\ ~fc) => \A n \in 1..N : \A r, r2 \in 1..R :
                                      r # r2 => var.v[n][r][r2] = 0
                /\ (foc /\ fc) => \A n, n2 \in 1..N : \A r, r2 \in 1..R :
                                      r # r2 => var.v[n][r][n2][r2] = 0

\* C2 witness: the Features implementation returned with both flags set, two
\* points and two outputs.
C2_Witness ==
    \E c \in Calls :
        /\ c.pc = "returned" /\ c.impl = "features"
        /\ KwOr(c, "full_cov", FALSE) /\ KwOr(c, "full_output_cov", FALSE)
        /\ c.result.var.shape = <<2, 2, 2, 2>>

\* the reference locations of a call: the inducing points, or X
RefPoints(c) == c.args.source.val

\* C3: whenever Kmm has been handed to the primitive, on either path, it is
\* the covariance of the reference locations with the jitter diagonal added.
C3_JitterBeforeFactorization ==
    \A c \in Calls :
        Has(c.trace, "base_conditional") =>
            SameTensor(c.bargs.Kmm,
                       MatAdd(KernelFull(RefPoints(c)), jitter_eye(RefPoints(c).shape[1])))

\* M and R of the call's inputs agree: f has as many rows as there are
\* reference locations, and q_sqrt is None, [M, R] or [R, M, M]
Consistent(c) ==
    LET M == RefPoints(c).shape[1]
        f == c.args.function.val
        R == f.shape[2]
        q == KwOr(c, "q_sqrt", None)
    IN  /\ f.shape[1] = M
        /\ IsNone(q) \/ q.shape = <<M, R>> \/ q.shape = <<R, M, M>>

\* C4: a call that reaches the primitive with an inconsistent M or R (f or
\* q_sqrt against the reference locations) ends with ShapeError, raised before
\* any Cholesky factorization: the factorization is reached by consistent
\* calls only.
C4_ShapeErrorBeforeFactorization ==
    \A c \in Calls :
        /\ Has(c.trace, "cholesky") => Consistent(c)
        /\ c.berr = "ShapeError" => ~Has(c.trace, "cholesky")
        /\ (Terminal(c) /\ Has(c.trace, "base_conditional") /\ ~Consistent(c)) =>
              /\ c.pc = "raised" /\ c.err = "ShapeError"
              /\ ~Has(c.trace, "cholesky")
              /\ c.result = NoPair

\* C4 witness: two reference locations (Kmm is 2 x 2) against an f of one row
\* ended with ShapeError.
C4_Witness ==
    \E c \in Calls :
        /\ c.pc = "raised" /\ c.err = "ShapeError"
        /\ c.bargs.Kmm.shape = <<2, 2>> /\ c.args.function.val.shape[1] = 1

C5_FailureState ==
    \A c \in Calls :
        /\ Count(c.trace, "base_conditional") <= 1
        /\ Count(c.trace, "cholesky") <= 1
        /\ (c.err # "") = (c.pc = "raised")
        /\ c.berr # "" => /\ c.bout = NoPair
                          /\ c.pc \in {"f56", "d107", "raised"}
                          /\ c.pc = "raised" => c.err = c.berr
        /\ c.pc = "raised" =>
              /\ c.err \in {"UnsupportedCombinationError", "TypeError",
                            "ShapeError", "NumericalError"}
              /\ c.result = NoPair
              /\ c.trace[Len(c.trace)] = "raise"
              /\ ~Has(c.trace, "return")
              /\ ~Has(c.trace, "expand_independent_outputs")

C5_NoStepAfterFailure ==
    \A i \in DOMAIN calls : calls[i].pc = "raised" => calls'[i] = calls[i]

\* C5: a failure is the outcome of the call: a call that raised returned no
\* result, ran no expansion and takes no further step, and no call invokes the
\* primitive (or the factorization) more than once.
C5_FailuresAreFatal == []C5_FailureState /\ [][C5_NoStepAfterFailure]_vars

\* C5 witness: Kmm = [[1, 1], [1, 1]] without jitter was handed to the
\* primitive and the call ended with NumericalError.
C5_Witness ==
    \E c \in Calls :
        /\ c.pc = "raised" /\ c.err = "NumericalError"
        /\ SameTensor(c.bargs.Kmm, Mat(2, 2, LAMBDA i, j : Scale))

\* C7: a call that returned an [R, N, N] variance with full_cov=True has, on
\* its diagonal, the [N, R] variance the same call returns with full_cov=False.
C7_DiagonalOfFullCov ==
    \A c \in Calls :
        (c.pc = "returned" /\ KwOr(c, "full_cov", FALSE)
           /\ ~KwOr(c, "full_output_cov", FALSE)) =>
            LET d == Conditional(WithoutKw(c.args, "full_cov"))
                N == c.args.Xnew.val.shape[1]
                R == c.args.function.val.shape[2]
            IN  /\ d.pc = "returned"
                /\ c.result.var.shape = <<R, N, N>>
                /\ d.result.var.shape = <<N, R>>
                /\ \A r \in 1..R : \A n \in 1..N :
                       c.result.var.v[r][n][n] = d.result.var.v[n][r]

\* C7 witness: a call with full_cov=True, a q_sqrt, two points and two outputs
\* has returned.
C7_Witness ==
    \E c \in Calls :
        /\ c.pc = "returned" /\ KwOr(c, "full_cov", FALSE)
        /\ ~KwOr(c, "full_output_cov", FALSE)
        /\ Supplied(c, "q_sqrt")
        /\ c.result.var.shape = <<2, 2, 2>>

SamePair(p, q) == SameTensor(p.mean, q.mean) /\ SameTensor(p.var, q.var)

SameOutcome(o, p) == o.pc = p.pc /\ o.err = p.err /\ SamePair(o.result, p.result)

C8_SameAsAlone ==
    /\ \A i \in DOMAIN calls :
           Terminal(calls[i]) => SameOutcome(Outcome(calls[i]), alone[i])
    /\ \A i, j \in DOMAIN calls :
           (Terminal(calls[i]) /\ Terminal(calls[j]) /\ calls[i].args = calls[j].args)
               => SameOutcome(Outcome(calls[i]), Outcome(calls[j]))

C8_OwnStateOnly ==
    \E i \in DOMAIN calls :
        /\ \A j \in DOMAIN calls \ {i} : calls'[j] = calls[j]
        /\ calls'[i].args = calls[i].args

\* C8: under every interleaving of two calls, each call ends with the outcome
\* it has when run on its own, two calls with the same inputs end the same,
\* every step changes the record of one call only and no step changes a
\* call's inputs.
C8_CallsIndependent == []C8_SameAsAlone /\ [][C8_OwnStateOnly]_vars

\* C8 witness: two calls with different inputs were in flight together and
\* both have returned.
C8_Witness ==
    /\ Len(calls) = 2
    /\ calls[1].args # calls[2].args
    /\ calls[1].pc = "returned" /\ calls[2].pc = "returned"
    /\ calls[1].impl = "data" /\ calls[2].impl = "data"

FeaturesFlow ==
    <<"dispatch", "features", "Kuu", "Kuf", "kernel", "base_conditional",
      "cholesky", "expand_independent_outputs", "return">>

DataFlow ==
    <<"dispatch", "data", "kernel", "jitter_eye", "kernel", "kernel",
      "base_conditional", "cholesky", "return">>

\* C9: a call that returned computed Kmm, Kmn and Knn, then invoked the
\* primitive once with them and with the caller's f, full_cov, q_sqrt and
\* white; on the Features path the expansion then ran once, on the variance
\* only; on the Data path it did not run and the primitive's result was
\* returned as it is.
C9_DataFlow ==
    \A c \in Calls :
        c.pc = "returned" =>
            /\ c.trace = (IF IsFeature(c) THEN FeaturesFlow ELSE DataFlow)
            /\ SameTensor(c.bargs.Kmm, c.Kmm) /\ ~IsNone(c.Kmm)
            /\ SameTensor(c.bargs.Kmn, c.Kmn) /\ ~IsNone(c.Kmn)
            /\ SameTensor(c.bargs.Knn, c.Knn) /\ ~IsNone(c.Knn)
            /\ SameTensor(c.bargs.f, c.args.function.val)
            /\ c.bargs.full_cov = KwOr(c, "full_cov", FALSE)
            /\ SameTensor(c.bargs.q_sqrt, KwOr(c, "q_sqrt", None))
            /\ c.bargs.white = KwOr(c, "white", FALSE)
            /\ SameTensor(c.result.mean, c.bout.mean)
            /\ SameTensor(c.result.var,
                          IF IsFeature(c)
                          THEN expand_independent_outputs(
                                   c.bout.var, KwOr(c, "full_cov", FALSE),
                                   KwOr(c, "full_output_cov", FALSE))
                          ELSE c.bout.var)

\* C9 witness: a Data call and its primitive have returned.
C9_Witness ==
    \E c \in Calls :
        c.pc = "returned" /\ c.impl = "data" /\ KwOr(c, "full_cov", FALSE)

====
